---- MODULE Spec2Model ----
(***************************************************************************)
(* A model of generate_summary.py: the locale-aware cell parsers           *)
(* (parse_time_to_seconds, parse_number), format_time, the aggregation of  *)
(* load_and_analyze_data and the run of main.                              *)
(*                                                                         *)
(* Text is a sequence of one-character strings.  A number is a decimal     *)
(* n / 10^k kept in lowest form (the model computes exactly where Python   *)
(* computes in binary floating point), or the float nan.                   *)
(***************************************************************************)
EXTENDS Integers, Sequences, FiniteSets, TLC

VARIABLES pc, value, time_str, total_seconds, ret,
          csv, year_filter, today, df, stats, png

vars == <<pc, value, time_str, total_seconds, ret,
          csv, year_filter, today, df, stats, png>>

(***************************************************************************)
(* Bounds of the model.                                                    *)
(***************************************************************************)
\* longest cell drawn from the full cell alphabet
MaxCellLen == 5
\* longest cell drawn from a digit and the two separators only
MaxGroupedLen == 8
\* longest duration drawn from a digit, colon and dot only
MaxDurationLen == 9
\* largest number of tenths of a second handed to format_time
MaxDeciSeconds == 40000
\* most rows in the source file
MaxRows == 3

(***************************************************************************)
(* Text: the str methods the program uses.                                 *)
(***************************************************************************)
Quote == "\""
\* the no-break space U+00A0, one character
NBSP == "nbsp"
Digits == {"0", "1", "2", "3", "4", "5", "6", "7", "8", "9"}

IsDigit(c) == c \in Digits

DigitVal(c) ==
    CASE c = "0" -> 0 [] c = "1" -> 1 [] c = "2" -> 2 [] c = "3" -> 3
      [] c = "4" -> 4 [] c = "5" -> 5 [] c = "6" -> 6 [] c = "7" -> 7
      [] c = "8" -> 8 [] c = "9" -> 9

\* str.strip(c): leading and trailing occurrences of c removed
RECURSIVE LStrip(_, _)
LStrip(s, c) ==
    IF s # <<>> /\ Head(s) = c THEN LStrip(Tail(s), c) ELSE s

RECURSIVE RStrip(_, _)
RStrip(s, c) ==
    IF s # <<>> /\ s[Len(s)] = c THEN RStrip(SubSeq(s, 1, Len(s) - 1), c) ELSE s

Strip(s, c) == RStrip(LStrip(s, c), c)

\* str.replace(c, r) for a one-character c
RECURSIVE Replace(_, _, _)
Replace(s, c, r) ==
    IF s = <<>> THEN <<>>
    ELSE (IF Head(s) = c THEN r ELSE <<Head(s)>>) \o Replace(Tail(s), c, r)

\* c in s
Contains(s, c) == \E i \in 1..Len(s) : s[i] = c

\* str.rfind(c): the 0-based index of the last c, -1 when there is none
RFind(s, c) ==
    IF Contains(s, c)
    THEN (CHOOSE i \in 1..Len(s) : s[i] = c /\ \A j \in (i + 1)..Len(s) : s[j] # c) - 1
    ELSE -1

\* str.split(c)
RECURSIVE Split(_, _)
Split(s, c) ==
    IF ~Contains(s, c) THEN <<s>>
    ELSE LET i == CHOOSE i \in 1..Len(s) : s[i] = c /\ \A j \in 1..(i - 1) : s[j] # c
         IN  <<SubSeq(s, 1, i - 1)>> \o Split(SubSeq(s, i + 1, Len(s)), c)

\* re.match(r'^\d{1,3}(<sep>\d{3})+$', s): one to three digits, then one or
\* more groups of sep and exactly three digits
ReGroupedAnyLead(s, sep) ==
    \E h \in 1..Len(s) :
        /\ Len(s) > h
        /\ (Len(s) - h) % 4 = 0
        /\ \A i \in 1..Len(s) :
              IF i > h /\ (i - h) % 4 = 1 THEN s[i] = sep ELSE IsDigit(s[i])

ReGrouped(s, sep) ==
    \E h \in 1..3 :
        /\ Len(s) > h
        /\ (Len(s) - h) % 4 = 0
        /\ \A i \in 1..Len(s) :
              IF i > h /\ (i - h) % 4 = 1 THEN s[i] = sep ELSE IsDigit(s[i])

(***************************************************************************)
(* Numbers: what float() and int() return, and float arithmetic.           *)
(***************************************************************************)
RECURSIVE Norm(_, _)
Norm(n, k) ==
    IF k > 0 /\ n % 10 = 0 THEN Norm(n \div 10, k - 1)
    ELSE [tag |-> "num", n |-> n, k |-> k]

Zero == Norm(0, 0)
NaN == [tag |-> "nan", n |-> 0, k |-> 0]
\* the exception float() and int() raise on text that is no number
ValueError == [tag |-> "ValueError", n |-> 0, k |-> 0]
\* the exception .lower() raises on a float
AttributeError == [tag |-> "AttributeError", n |-> 0, k |-> 0]

RECURSIVE IntVal(_)
IntVal(ds) ==
    IF ds = <<>> THEN 0
    ELSE IntVal(SubSeq(ds, 1, Len(ds) - 1)) * 10 + DigitVal(ds[Len(ds)])

Signed(s) == s # <<>> /\ Head(s) \in {"-", "+"}
Unsigned(s) == IF Signed(s) THEN Tail(s) ELSE s
SignOf(s) == IF s # <<>> /\ Head(s) = "-" THEN -1 ELSE 1

\* float(s) for text over digits, sign, dot, spaces and letters: surrounding
\* white space ignored, an optional sign, then digits with at most one dot
\* and at least one digit, or nan
FloatOf(s) ==
    LET t == Strip(s, " ")
        b == Unsigned(t)
        dot == RFind(b, ".") + 1
        ds == Replace(b, ".", <<>>)
    IN  IF b = <<"n", "a", "n">> THEN NaN
        ELSE IF /\ ds # <<>>
                /\ \A i \in 1..Len(ds) : IsDigit(ds[i])
                /\ Len(b) - Len(ds) <= 1
             THEN Norm(SignOf(t) * IntVal(ds), IF dot = 0 THEN 0 ELSE Len(b) - dot)
             ELSE ValueError

\* int(s) for text: surrounding white space ignored, an optional sign, digits
IntOf(s) ==
    LET t == Strip(s, " ")
        b == Unsigned(t)
    IN  IF b # <<>> /\ \A i \in 1..Len(b) : IsDigit(b[i])
        THEN Norm(SignOf(t) * IntVal(b), 0)
        ELSE ValueError

\* float arithmetic, exact; nan is contagious
RECURSIVE Pow10(_)
Pow10(k) == IF k = 0 THEN 1 ELSE 10 * Pow10(k - 1)

Max(a, b) == IF a >= b THEN a ELSE b

Plus(a, b) ==
    IF a.tag = "nan" \/ b.tag = "nan" THEN NaN
    ELSE LET k == Max(a.k, b.k)
         IN  Norm(a.n * Pow10(k - a.k) + b.n * Pow10(k - b.k), k)

Times(a, c) == IF a.tag = "nan" THEN NaN ELSE Norm(a.n * c, a.k)

\* a / 10^3
DivThousand(a) == IF a.tag = "nan" THEN NaN ELSE Norm(a.n, a.k + 3)

\* a // d and a % d for a positive integer d, as Python floors them
FloorDiv(a, d) == a.n \div (d * Pow10(a.k))

Mod(a, d) == Plus(a, Norm(-(d * FloorDiv(a, d)), 0))

(***************************************************************************)
(* Cells.  A cell of the table is text, or the float nan that read_csv     *)
(* puts where the file has nothing.                                        *)
(***************************************************************************)
NaNCell == <<"float('nan')">>

\* str(value)
Str(v) == IF v = NaNCell THEN <<"n", "a", "n">> ELSE v

(***************************************************************************)
(* parse_number                                                            *)
(***************************************************************************)
\* lines 44-46: quotes stripped, spaces and no-break spaces removed
Unquoted(v) == Replace(Replace(Strip(Str(v), Quote), " ", <<>>), NBSP, <<>>)

\* lines 49-58: both separators present
MixedSeparatorsSwapped(v) ==
    LET dot_pos == RFind(v, ".")
        comma_pos == RFind(v, ",")
    IN  IF dot_pos < comma_pos
        THEN Replace(v, ",", <<>>)
        ELSE Replace(Replace(v, ".", <<>>), ",", <<".">>)

MixedSeparators(v) ==
    LET dot_pos == RFind(v, ".")
        comma_pos == RFind(v, ",")
    IN  IF dot_pos > comma_pos
        THEN Replace(v, ",", <<>>)
        ELSE Replace(Replace(v, ".", <<>>), ",", <<".">>)

\* lines 49-69: the separator rules
SeparatorRules(v) ==
    IF Contains(v, ".") /\ Contains(v, ",") THEN MixedSeparators(v)
    ELSE IF ReGrouped(v, ".") THEN Replace(v, ".", <<>>)
    ELSE IF ReGrouped(v, ",") THEN Replace(v, ",", <<>>)
    ELSE Replace(v, ",", <<".">>)

\* lines 42, 72-73: try ... except ValueError: return 0
ExceptNothing(r) == r

ExceptValueError(r) == IF r = ValueError THEN Zero ELSE r

parse_number(v) ==
    IF v = <<>> \/ v = <<"-", "-">> THEN Zero
    ELSE ExceptValueError(FloatOf(SeparatorRules(Unquoted(v))))

(***************************************************************************)
(* parse_time_to_seconds                                                   *)
(***************************************************************************)
\* lines 19, 33-34: try ... except (ValueError, IndexError): return 0
ExceptValueOrIndexError(r) == IF r = ValueError THEN Zero ELSE r

\* lines 25-28: hours, minutes and seconds of three or more parts
HoursAsMinutes(parts) ==
    LET hours == IntOf(parts[1])
        minutes == IntOf(parts[2])
        seconds == FloatOf(parts[3])
    IN  IF ValueError \in {hours, minutes, seconds} THEN ValueError
        ELSE Plus(Plus(Times(hours, 60), Times(minutes, 60)), seconds)

HoursMinutesSeconds(parts) ==
    LET hours == IntOf(parts[1])
        minutes == IntOf(parts[2])
        seconds == FloatOf(parts[3])
    IN  IF ValueError \in {hours, minutes, seconds} THEN ValueError
        ELSE Plus(Plus(Times(hours, 3600), Times(minutes, 60)), seconds)

\* lines 30-32: minutes and seconds of two parts
MinutesSeconds(parts) ==
    LET minutes == IntOf(parts[1])
        seconds == FloatOf(parts[2])
    IN  IF ValueError \in {minutes, seconds} THEN ValueError
        ELSE Plus(Times(minutes, 60), seconds)

\* lines 23-35: the parts of the string and the form they are read in
TimeOfParts(parts) ==
    IF Len(parts) >= 3 THEN HoursMinutesSeconds(parts)
    ELSE IF Len(parts) = 2 THEN MinutesSeconds(parts)
    ELSE Zero

parse_time_to_seconds(t) ==
    IF t = <<>> \/ t = <<"-", "-">> THEN Zero
    ELSE ExceptValueOrIndexError(
             TimeOfParts(Split(Replace(Strip(Str(t), Quote), ".", <<":">>), ":")))

(***************************************************************************)
(* format_time                                                             *)
(***************************************************************************)
DigitChar(d) ==
    CASE d = 0 -> "0" [] d = 1 -> "1" [] d = 2 -> "2" [] d = 3 -> "3"
      [] d = 4 -> "4" [] d = 5 -> "5" [] d = 6 -> "6" [] d = 7 -> "7"
      [] d = 8 -> "8" [] d = 9 -> "9"

\* str(n) of an integer, as an f-string formats it
RECURSIVE IntStr(_)
IntStr(n) ==
    IF n < 0 THEN <<"-">> \o IntStr(-n)
    ELSE IF n < 10 THEN <<DigitChar(n)>>
    ELSE IntStr(n \div 10) \o <<DigitChar(n % 10)>>

\* int(nan) raises ValueError
format_time_rounded(ts) ==
    IF ts.tag = "nan" THEN ValueError
    ELSE LET hours == FloorDiv(ts, 3600)
             minutes == FloorDiv(Plus(Mod(ts, 3600), Norm(30, 0)), 60)
         IN  IntStr(hours) \o <<"h", " ">> \o IntStr(minutes) \o <<"m">>

format_time(ts) ==
    IF ts.tag = "nan" THEN ValueError
    ELSE LET hours == FloorDiv(ts, 3600)
             minutes == FloorDiv(Mod(ts, 3600), 60)
         IN  IntStr(hours) \o <<"h", " ">> \o IntStr(minutes) \o <<"m">>

(***************************************************************************)
(* The parsers and format_time, each called alone on one input.            *)
(***************************************************************************)
Text(alphabet, n) == UNION {[1..m -> alphabet] : m \in 0..n}

CellAlphabet == {"1", "2", ".", ",", "-", " ", Quote, "x"}
GroupedAlphabet == {"1", ".", ","}

\* cells of an export: the numbers of both locales, quoted, spaced, missing
\* (pandas hands a missing cell over as the float nan, whose str() is "nan")
SampleCells ==
    { <<"5", ".", "9", "7", "2">>,
      <<"1", ".", "2", "3", "4", ".", "5", "6", "7">>,
      <<"2", ",", "7", "3", "8">>,
      <<"1", ",", "2", "0", "0", ".", "5">>,
      <<"1", ".", "2", "0", "0", ",", "5">>,
      <<"3", ",", "5">>,
      <<"1", "5", "0", "0">>,
      <<"1", "2", "3", "4", ".", "5", "6", "7">>,
      <<"1", "2", "3", "4", "5", ",", "6", "7", "8">>,
      <<Quote, "1", NBSP, "2", "3", "4", ",", "5", Quote>>,
      <<"1", " ", "2", "0", "0", ",", "5", "0">>,
      <<"n", "a", "n">>,
      NaNCell,
      <<"-", "1", ".", "2", "3", "4">> }

Cells == Text(CellAlphabet, MaxCellLen) \cup Text(GroupedAlphabet, MaxGroupedLen)
            \cup SampleCells

DurationAlphabet == {"1", "2", ":", ".", "-", " ", Quote, "x"}
SegmentAlphabet == {"1", ":", "."}

SampleDurations ==
    { <<"0", "1", ":", "3", "0", ":", "0", "0">>,
      <<"1", ":", "0", "2", ":", "0", "3", ".", "5">>,
      <<"0", "0", ":", "5", "9">>,
      <<Quote, "1", "0", ":", "0", "0", ":", "0", "0", Quote>>,
      <<"1", ":", "2", ":", "3", ":", "4", ":", "5">>,
      <<"1", ":", "2", ":", "3", ".", "x">>,
      <<"1", ":", "2", ":", "n", "a", "n">>,
      NaNCell }

Durations == Text(DurationAlphabet, MaxCellLen) \cup Text(SegmentAlphabet, MaxDurationLen)
                \cup SampleDurations

SampleSeconds == {Norm(5400, 0), Norm(59, 0), Norm(90000, 0), Norm(3599999, 1)}

Seconds == {Norm(n, 1) : n \in 0..MaxDeciSeconds} \cup SampleSeconds

Idle == "idle"

\* the variables of the run of main, at rest while a function is called alone
MainAtRest ==
    /\ csv = <<>> /\ year_filter = <<>> /\ today = 0
    /\ df = <<>> /\ stats = <<>> /\ png = <<>>

InitNumber ==
    /\ pc = "call"
    /\ value \in Cells
    /\ time_str = <<>> /\ total_seconds = Zero
    /\ ret = Idle
    /\ MainAtRest

CallParseNumber ==
    /\ pc = "call"
    /\ ret' = parse_number(value)
    /\ pc' = "return"
    /\ UNCHANGED <<value, time_str, total_seconds, csv, year_filter, today, df, stats, png>>

SpecNumber == InitNumber /\ [][CallParseNumber]_vars

InitTime ==
    /\ pc = "call"
    /\ time_str \in Durations
    /\ value = <<>> /\ total_seconds = Zero
    /\ ret = Idle
    /\ MainAtRest

CallParseTime ==
    /\ pc = "call"
    /\ ret' = parse_time_to_seconds(time_str)
    /\ pc' = "return"
    /\ UNCHANGED <<value, time_str, total_seconds, csv, year_filter, today, df, stats, png>>

SpecTime == InitTime /\ [][CallParseTime]_vars

InitFormat ==
    /\ pc = "call"
    /\ total_seconds \in Seconds
    /\ value = <<>> /\ time_str = <<>>
    /\ ret = Idle
    /\ MainAtRest

CallFormatTime ==
    /\ pc = "call"
    /\ ret' = format_time(total_seconds)
    /\ pc' = "return"
    /\ UNCHANGED <<value, time_str, total_seconds, csv, year_filter, today, df, stats, png>>

SpecFormat == InitFormat /\ [][CallFormatTime]_vars

(***************************************************************************)
(* load_and_analyze_data and main                                          *)
(***************************************************************************)
AAcute == "a-acute"
IAcute == "i-acute"

\* str.lower(), on the letters the activity types are written in
Lower(c) ==
    CASE c = "A" -> "a" [] c = "I" -> "i" [] c = "L" -> "l" [] c = "M" -> "m"
      [] c = "P" -> "p" [] c = "R" -> "r" [] c = "S" -> "s" [] c = "V" -> "v"
      [] c = "W" -> "w" [] OTHER -> c

LowerText(s) == [i \in 1..Len(s) |-> Lower(s[i])]

\* needle in s
IsSubstring(needle, s) ==
    \E i \in 0..(Len(s) - Len(needle)) : SubSeq(s, i + 1, i + Len(needle)) = needle

\* read_csv: a field with nothing in it, or with "nan", is the float nan
ReadCell(c) == IF c = <<>> \/ c = <<"n", "a", "n">> THEN NaNCell ELSE c

read_csv(file) ==
    [i \in 1..Len(file) |->
        [f \in DOMAIN file[i] |-> ReadCell(file[i][f])]]

\* pd.to_datetime(...).dt.year of an ISO date
YearOf(datum) == IntVal(SubSeq(datum, 1, 4))

\* Series.sum(): the nan entries are skipped
RECURSIVE Sum(_)
Sum(xs) ==
    IF xs = <<>> THEN Zero
    ELSE IF Head(xs).tag = "nan" THEN Sum(Tail(xs))
    ELSE Plus(Head(xs), Sum(Tail(xs)))

\* value_counts(): the count of every type, the missing ones dropped
activity_counts(rows) ==
    [t \in {rows[i].typ : i \in 1..Len(rows)} \ {NaNCell} |->
        Cardinality({i \in 1..Len(rows) : rows[i].typ = t})]

\* value_counts() sorts by count, largest first, with a sort that is not
\* stable: index[0] is one of the types with the largest count, and which one
\* of several is left to the sort
AnyTypes(counts) == DOMAIN counts

TopTypes(counts) ==
    {t \in DOMAIN counts : \A u \in DOMAIN counts : counts[u] <= counts[t]}

\* lines 125-127: the activity type names swimming
IsSwimmingCaseSensitive(typ) ==
    IsSubstring(<<"p", "l", "a", "v">>, typ) \/ IsSubstring(<<"s", "w", "i", "m">>, typ)

IsSwimming(typ) ==
    LET activity_type == LowerText(typ)
    IN  \/ IsSubstring(<<"p", "l", "a", "v">>, activity_type)
        \/ IsSubstring(<<"s", "w", "i", "m">>, activity_type)

\* lines 123-129; row['Typ aktivity'].lower() raises AttributeError on a float
calc_distance(row) ==
    LET dist == parse_number(row.vzdalenost)
    IN  IF row.typ = NaNCell THEN AttributeError
        ELSE IF IsSwimming(row.typ) THEN DivThousand(dist)
        ELSE dist

Truthy(text) == text # <<>>

Keys ==
    {"total_activities", "most_frequent_activity", "most_frequent_count",
     "activity_breakdown", "total_time", "total_time_seconds", "total_distance",
     "total_elevation", "total_calories", "total_steps", "year"}

\* the rows of an export
Run == <<"R", "u", "n">>
Walk == <<"W", "a", "l", "k">>
Plavani == <<"P", "l", "a", "v", AAcute, "n", IAcute>>
PoolSwim == <<"P", "o", "o", "l", " ", "S", "w", "i", "m">>

Row(typ, datum, cas, vzdalenost, vystup, kalorie, kroky) ==
    [typ |-> typ, datum |-> datum, cas |-> cas, vzdalenost |-> vzdalenost,
     vystup |-> vystup, kalorie |-> kalorie, kroky |-> kroky]

Day2023 == <<"2", "0", "2", "3", "-", "0", "5", "-", "0", "1">>
Day2024 == <<"2", "0", "2", "4", "-", "0", "1", "-", "3", "1">>

SampleRows ==
    { Row(Run, Day2023, <<"1", ":", "0", "0", ":", "0", "0">>, <<"1", "0">>,
          <<"1", "2", "0">>, <<"-", "-">>, <<"1", "2", ".", "3", "4", "5">>),
      Row(PoolSwim, Day2023, <<"0", ":", "2", "0", ":", "0", "0">>, <<"2", "0", "0", "0">>,
          <<"-", "-">>, <<"3", "0", "0">>, <<>>),
      Row(Plavani, Day2024, <<"0", "0", ":", "2", "5", ":", "3", "0", ".", "5">>,
          <<"1", "5", "0", "0">>, <<>>, <<"2", "5", "0">>, <<"-", "-">>),
      Row(Walk, Day2024, <<"4", "5", ":", "1", "0">>, <<>>,
          <<"3", "5">>, <<"1", "8", "0">>, <<"6", ",", "0", "0", "0">>),
      Row(Walk, Day2023, <<"-", "-">>, <<"-", "-">>,
          <<"1", ".", "0", "5", "0">>, <<"9", "0">>, <<"4", " ", "2", "0", "0">>),
      Row(Run, Day2024, <<"0", ":", "3", "0", ":", "1", "5">>, <<"5", ",", "2", "5">>,
          <<"8", "0">>, <<"4", "1", "0">>, <<"5", "9", "7", "2">>),
      Row(<<>>, Day2024, <<"0", ":", "1", "0", ":", "0", "0">>, <<"1">>,
          <<"5">>, <<"5", "0">>, <<"9", "0", "0">>) }

Files == UNION {[1..n -> SampleRows] : n \in 0..MaxRows}

\* the YEAR of the environment: unset (or empty), a year, or no number
YearFilters ==
    { <<>>, <<"2", "0", "2", "3">>, <<"2", "0", "2", "4">>, <<"2", "0", "2", "2">>, <<"x">> }

\* datetime.now().year
CurrentYears == {2024, 2026}

Init ==
    /\ pc = "main"
    /\ csv \in Files
    /\ year_filter \in YearFilters
    /\ today \in CurrentYears
    /\ df = <<>> /\ stats = <<>> /\ png = <<>>
    /\ ret = Idle
    /\ value = <<>> /\ time_str = <<>> /\ total_seconds = Zero

Step(from, to) == pc = from /\ pc' = to

Raise(exception) == pc' = "failed" /\ ret' = exception

Rest == <<value, time_str, total_seconds, csv, year_filter, today>>

\* line 95
ReadCsv ==
    /\ Step("main", "filter")
    /\ df' = read_csv(csv)
    /\ UNCHANGED <<Rest, ret, stats, png>>

\* lines 98-101: the rows of the year, when a filter is given
FilterYearIgnored ==
    /\ pc = "filter"
    /\ IF Truthy(year_filter) /\ IntOf(year_filter) = ValueError
       THEN Raise("ValueError")
       ELSE pc' = "count" /\ UNCHANGED ret
    /\ UNCHANGED <<Rest, df, stats, png>>

FilterYear ==
    /\ pc = "filter"
    /\ IF ~Truthy(year_filter)
       THEN pc' = "count" /\ UNCHANGED <<df, ret>>
       ELSE IF IntOf(year_filter) = ValueError
       THEN Raise("ValueError") /\ UNCHANGED df
       ELSE /\ pc' = "count"
            /\ df' = SelectSeq(df, LAMBDA row : YearOf(row.datum) = IntOf(year_filter).n)
            /\ UNCHANGED ret
    /\ UNCHANGED <<Rest, stats, png>>

\* line 107
CountActivities ==
    /\ Step("count", "frequent")
    /\ stats' = stats @@ ("total_activities" :> Len(df))
    /\ UNCHANGED <<Rest, ret, df, png>>

\* lines 110-115; index[0] of an empty index raises IndexError
MostFrequentOrNone ==
    /\ pc = "frequent"
    /\ pc' = "time"
    /\ LET counts == activity_counts(df)
       IN  \E t \in (IF DOMAIN counts = {} THEN {NaNCell} ELSE TopTypes(counts)) :
              stats' = stats @@ ("most_frequent_activity" :> t)
                             @@ ("most_frequent_count" :>
                                    IF DOMAIN counts = {} THEN 0 ELSE counts[t])
                             @@ ("activity_breakdown" :> counts)
    /\ UNCHANGED <<Rest, ret, df, png>>

MostFrequent ==
    /\ pc = "frequent"
    /\ LET counts == activity_counts(df)
       IN  IF DOMAIN counts = {}
           THEN Raise("IndexError") /\ UNCHANGED stats
           ELSE /\ pc' = "time"
                /\ \E t \in TopTypes(counts) :
                      stats' = stats @@ ("most_frequent_activity" :> t)
                                     @@ ("most_frequent_count" :> counts[t])
                                     @@ ("activity_breakdown" :> counts)
                /\ UNCHANGED ret
    /\ UNCHANGED <<Rest, df, png>>

\* lines 118-120
TotalTime ==
    /\ Step("time", "distance")
    /\ LET seconds == Sum([i \in 1..Len(df) |-> parse_time_to_seconds(df[i].cas)])
       IN  stats' = stats @@ ("total_time" :> format_time(seconds))
                          @@ ("total_time_seconds" :> seconds)
    /\ UNCHANGED <<Rest, ret, df, png>>

\* lines 123-132
TotalDistance ==
    /\ pc = "distance"
    /\ LET distances == [i \in 1..Len(df) |-> calc_distance(df[i])]
       IN  IF \E i \in 1..Len(df) : distances[i] = AttributeError
           THEN Raise("AttributeError") /\ UNCHANGED stats
           ELSE /\ pc' = "elevation"
                /\ stats' = stats @@ ("total_distance" :> Sum(distances))
                /\ UNCHANGED ret
    /\ UNCHANGED <<Rest, df, png>>

ColumnTotal(f) == Sum([i \in 1..Len(df) |-> parse_number(df[i][f])])

\* lines 135-136
TotalElevation ==
    /\ Step("elevation", "calories")
    /\ stats' = stats @@ ("total_elevation" :> ColumnTotal("vystup"))
    /\ UNCHANGED <<Rest, ret, df, png>>

\* lines 139-140
TotalCalories ==
    /\ Step("calories", "steps")
    /\ stats' = stats @@ ("total_calories" :> ColumnTotal("kalorie"))
    /\ UNCHANGED <<Rest, ret, df, png>>

\* lines 143-144
TotalSteps ==
    /\ Step("steps", "year")
    /\ stats' = stats @@ ("total_steps" :> ColumnTotal("kroky"))
    /\ UNCHANGED <<Rest, ret, df, png>>

\* lines 147-152: the year, and the record returned to main
SetYear ==
    /\ Step("year", "loaded")
    /\ stats' = stats @@ ("year" :> IF Truthy(year_filter) THEN IntOf(year_filter).n
                                     ELSE today)
    /\ UNCHANGED <<Rest, ret, df, png>>

\* lines 311-321
PrintSummary ==
    /\ Step("loaded", "render")
    /\ UNCHANGED <<Rest, ret, df, stats, png>>

\* lines 324, 220-294: the image drawn from the record and saved
GenerateImage ==
    /\ Step("render", "done")
    /\ png' = <<[path |-> <<"garmin-", stats["year"], ".png">>, drawn |-> stats]>>
    /\ UNCHANGED <<Rest, ret, df, stats>>

\* line 291: the output path cannot be written
SaveFails ==
    /\ pc = "render"
    /\ Raise("OSError")
    /\ UNCHANGED <<Rest, df, stats, png>>

Next ==
    \/ ReadCsv \/ FilterYear \/ CountActivities \/ MostFrequent \/ TotalTime
    \/ TotalDistance \/ TotalElevation \/ TotalCalories \/ TotalSteps \/ SetYear
    \/ PrintSummary \/ GenerateImage \/ SaveFails

Spec == Init /\ [][Next]_vars

(***************************************************************************)
(* Claims about parse_number (checked under SpecNumber).                   *)
(***************************************************************************)
Returned == pc = "return"

ZeroIfError(r) == IF r = ValueError THEN Zero ELSE r

Separators == {".", ","}

\* the digits of a text, in order
RECURSIVE DigitsOf(_)
DigitsOf(s) ==
    IF s = <<>> THEN <<>>
    ELSE (IF IsDigit(Head(s)) THEN <<Head(s)>> ELSE <<>>) \o DigitsOf(Tail(s))

AllDigits(s) == \A i \in 1..Len(s) : IsDigit(s[i])

\* C1: parse_number returns a number for every cell and never raises; the
\* empty cell, the placeholder "--" and every cell that is no valid float
\* once the separator rules have been applied give 0.
C1_NeverRaisesZeroDefault ==
    Returned =>
        /\ ret.tag \in {"num", "nan"}
        /\ (value = <<>> \/ value = <<"-", "-">>) => ret = Zero
        /\ FloatOf(SeparatorRules(Unquoted(value))) = ValueError => ret = Zero

C1_Witness ==
    /\ Returned
    /\ value # <<>> /\ value # <<"-", "-">>
    /\ FloatOf(SeparatorRules(Unquoted(value))) = ValueError
    /\ ret = Zero

\* the position of the last separator of either kind, 0 when there is none
LastSeparator(v) ==
    IF \E i \in 1..Len(v) : v[i] \in Separators
    THEN CHOOSE i \in 1..Len(v) :
             v[i] \in Separators /\ \A j \in (i + 1)..Len(v) : v[j] \notin Separators
    ELSE 0

OtherSeparator(c) == IF c = "." THEN "," ELSE "."

\* v with the kind of its last separator as the decimal mark, the other stripped
LastAsDecimal(v) ==
    LET mark == v[LastSeparator(v)]
    IN  Replace(Replace(v, OtherSeparator(mark), <<>>), mark, <<".">>)

HasBoth(v) == Contains(v, ".") /\ Contains(v, ",")

\* C4: in a cell holding both '.' and ',' (quotes, spaces and no-break spaces
\* removed) the separator that occurs later is the decimal mark and the other
\* is stripped: digits, one separator, digits, the other separator, digits
\* parse to the number whose fraction is the digits after the later one, and
\* "1,200.5" and "1.200,5" both parse to 1200.5.
C4_LaterSeparatorIsDecimal ==
    Returned /\ HasBoth(Unquoted(value)) =>
        LET v == Unquoted(value)
        IN  /\ ret = ZeroIfError(FloatOf(LastAsDecimal(v)))
            /\ (/\ Len(DigitsOf(v)) = Len(v) - 2
                /\ DigitsOf(v) # <<>>)
               => ret = Norm(IntVal(DigitsOf(v)), Len(v) - LastSeparator(v))
            /\ value \in {<<"1", ",", "2", "0", "0", ".", "5">>,
                          <<"1", ".", "2", "0", "0", ",", "5">>}
               => ret = Norm(12005, 1)

C4_Witness ==
    /\ Returned
    /\ value = <<"1", ".", "2", "0", "0", ",", "5">>
    /\ ret = Norm(12005, 1)

\* every sep of v is followed by a group of exactly three digits
EveryFollowedByThree(v, sep) ==
    \A i \in 1..Len(v) :
        v[i] = sep =>
            /\ i + 3 <= Len(v)
            /\ \A j \in (i + 1)..(i + 3) : IsDigit(v[j])
            /\ i + 4 <= Len(v) => ~IsDigit(v[i + 4])

\* v is digits and sep only, starts with a digit and holds a sep
OnlySeparator(v, sep) ==
    /\ Contains(v, sep)
    /\ IsDigit(v[1])
    /\ \A i \in 1..Len(v) : IsDigit(v[i]) \/ v[i] = sep

\* C5 as stated: a cell with only '.', every dot followed by a group of
\* exactly three digits, parses to the integer with the dots stripped; the
\* same for a cell with only ','; in every other case ',' is the decimal mark.
C5_AsStated ==
    Returned /\ ~HasBoth(Unquoted(value)) /\ value # <<>> /\ value # <<"-", "-">> =>
        LET v == Unquoted(value)
            dots == OnlySeparator(v, ".") /\ EveryFollowedByThree(v, ".")
            commas == OnlySeparator(v, ",") /\ EveryFollowedByThree(v, ",")
        IN  IF dots \/ commas THEN ret = Norm(IntVal(DigitsOf(v)), 0)
            ELSE ret = ZeroIfError(FloatOf(Replace(v, ",", <<".">>)))

\* v is one to three digits, then one or more groups of sep and three digits
LeadThenGroups(v, sep) ==
    LET groups == Split(v, sep)
    IN  /\ Len(groups) >= 2
        /\ Len(groups[1]) \in 1..3
        /\ \A i \in 2..Len(groups) : Len(groups[i]) = 3
        /\ \A i \in 1..Len(groups) : AllDigits(groups[i])

\* C5 amended: a cell with one kind of separator parses to the integer with
\* the separators stripped exactly when it is one to three digits followed by
\* one or more groups of that separator and three digits ("5.972",
\* "1.234.567", "2,738"); in every other case each ',' is read as the decimal
\* mark and a '.' stays one ("3,5" gives 3.5, "1234.567" gives 1234.567), 0
\* when that is no valid float.
C5_LeadingGroupBounded ==
    Returned /\ ~HasBoth(Unquoted(value)) /\ value # <<>> /\ value # <<"-", "-">> =>
        LET v == Unquoted(value)
        IN  /\ IF LeadThenGroups(v, ".") \/ LeadThenGroups(v, ",")
               THEN ret = Norm(IntVal(DigitsOf(v)), 0)
               ELSE ret = ZeroIfError(FloatOf(Replace(v, ",", <<".">>)))
            /\ value = <<"5", ".", "9", "7", "2">> => ret = Norm(5972, 0)
            /\ value = <<"1", ".", "2", "3", "4", ".", "5", "6", "7">> => ret = Norm(1234567, 0)
            /\ value = <<"2", ",", "7", "3", "8">> => ret = Norm(2738, 0)
            /\ value = <<"3", ",", "5">> => ret = Norm(35, 1)

C5_Witness ==
    /\ Returned
    /\ value = <<"1", ".", "2", "3", "4", ".", "5", "6", "7">>
    /\ ret = Norm(1234567, 0)

(***************************************************************************)
(* Claims about parse_time_to_seconds (checked under SpecTime).            *)
(***************************************************************************)
Positions(t, c) == {i \in 1..Len(t) : t[i] = c}

Least(S) == CHOOSE i \in S : \A j \in S : i <= j
Greatest(S) == CHOOSE i \in S : \A j \in S : j <= i

\* t is H:M:S or H:M:S.s, with H, M, S non-empty digit strings and s digits
WellFormedDuration(t) ==
    LET colons == Positions(t, ":")
        dots == Positions(t, ".")
    IN  /\ Cardinality(colons) = 2
        /\ Cardinality(dots) <= 1
        /\ \A i \in 1..Len(t) : IsDigit(t[i]) \/ t[i] \in {":", "."}
        /\ Least(colons) > 1
        /\ Greatest(colons) > Least(colons) + 1
        /\ IF dots = {} THEN Len(t) > Greatest(colons)
           ELSE Least(dots) > Greatest(colons) + 1

\* H*3600 + M*60 + S of a well-formed duration
SecondsOfDuration(t) ==
    LET c1 == Least(Positions(t, ":"))
        c2 == Greatest(Positions(t, ":"))
        end == IF Positions(t, ".") = {} THEN Len(t) ELSE Least(Positions(t, ".")) - 1
    IN  IntVal(SubSeq(t, 1, c1 - 1)) * 3600
          + IntVal(SubSeq(t, c1 + 1, c2 - 1)) * 60
          + IntVal(SubSeq(t, c2 + 1, end))

\* C2: a well-formed H:M:S or H:M:S.s gives exactly H*3600 + M*60 + S; the
\* empty string and "--" give 0.
C2_WellFormedDuration ==
    Returned =>
        /\ WellFormedDuration(time_str) => ret = Norm(SecondsOfDuration(time_str), 0)
        /\ (time_str = <<>> \/ time_str = <<"-", "-">>) => ret = Zero

C2_Witness ==
    /\ Returned
    /\ WellFormedDuration(time_str)
    /\ Positions(time_str, ".") # {}
    /\ ret = Norm(3661, 0)

\* the colon- and dot-separated segments of a duration, quotes stripped
Segments(t) == Split(Replace(Strip(Str(t), Quote), ".", <<":">>), ":")

\* a wrong number of segments, or a segment that is no number
Malformed(t) ==
    \/ Len(Segments(t)) \notin {2, 3, 4}
    \/ \E i \in 1..Len(Segments(t)) : FloatOf(Segments(t)[i]) = ValueError

IsHoursMinutes(r) ==
    /\ Cardinality(Positions(r, "h")) = 1
    /\ LET h == Least(Positions(r, "h"))
       IN  /\ h > 1 /\ Len(r) >= h + 3
           /\ r[h + 1] = " " /\ r[Len(r)] = "m"
           /\ AllDigits(SubSeq(r, 1, h - 1))
           /\ AllDigits(SubSeq(r, h + 2, Len(r) - 1))
           /\ h > 2 => r[1] # "0"
           /\ Len(r) > h + 3 => r[h + 2] # "0"

HoursIn(r) == IntVal(SubSeq(r, 1, Least(Positions(r, "h")) - 1))
MinutesIn(r) == IntVal(SubSeq(r, Least(Positions(r, "h")) + 2, Len(r) - 1))

\* C9: for s >= 0 seconds format_time gives "<H>h <M>m" with 0 <= M <= 59 and
\* H*3600 + M*60 <= s < H*3600 + M*60 + 60 (minutes truncated, hours not
\* capped); 5400 gives "1h 30m" and 59 gives "0h 0m".
C9_HoursMinutesTruncated ==
    Returned /\ total_seconds.n >= 0 =>
        /\ IsHoursMinutes(ret)
        /\ MinutesIn(ret) \in 0..59
        /\ LET whole == HoursIn(ret) * 3600 + MinutesIn(ret) * 60
               unit == Pow10(total_seconds.k)
           IN  /\ whole * unit <= total_seconds.n
               /\ total_seconds.n < (whole + 60) * unit
        /\ total_seconds = Norm(5400, 0) => ret = <<"1", "h", " ", "3", "0", "m">>
        /\ total_seconds = Norm(59, 0) => ret = <<"0", "h", " ", "0", "m">>

C9_Witness ==
    /\ Returned
    /\ total_seconds = Norm(90000, 0)
    /\ ret = <<"2", "5", "h", " ", "0", "m">>

(***************************************************************************)
(* Claims about load_and_analyze_data and main (checked under Spec).       *)
(***************************************************************************)
Has(key) == key \in DOMAIN stats

\* load_and_analyze_data has returned its record
RecordReturned == pc \in {"loaded", "render", "done"} \/ (pc = "failed" /\ ret = "OSError")

Upper(c) ==
    CASE c = "a" -> "A" [] c = "i" -> "I" [] c = "l" -> "L" [] c = "m" -> "M"
      [] c = "p" -> "P" [] c = "s" -> "S" [] c = "v" -> "V" [] c = "w" -> "W"

\* typ holds the token at some place, in any mix of cases
HoldsToken(typ, token) ==
    \E at \in 0..(Len(typ) - Len(token)) :
        \A j \in 1..Len(token) : typ[at + j] \in {token[j], Upper(token[j])}

NamesSwimming(typ) ==
    HoldsToken(typ, <<"s", "w", "i", "m">>) \/ HoldsToken(typ, <<"p", "l", "a", "v">>)

\* what one row adds to the distance: its parsed distance, a missing one
\* counting nothing, in kilometres
Contribution(row) ==
    LET parsed == parse_number(row.vzdalenost)
        dist == IF parsed.tag = "nan" THEN Zero ELSE parsed
    IN  IF NamesSwimming(row.typ) THEN Norm(dist.n, dist.k + 3) ELSE dist

RECURSIVE ExpectedDistance(_)
ExpectedDistance(rows) ==
    IF rows = <<>> THEN Zero
    ELSE Plus(Contribution(Head(rows)), ExpectedDistance(Tail(rows)))

\* C6: total_distance is the sum over the retained rows of the parsed
\* distance, divided by 1000 exactly for the rows whose type holds "swim" or
\* "plav" in any case; a "Plavani" row with "1500" adds 1.5 and a row with a
\* missing or "--" distance adds 0.
C6_TotalDistance ==
    Has("total_distance") =>
        /\ stats["total_distance"] = ExpectedDistance(df)
        /\ (Len(df) = 1 /\ df[1].typ = Plavani /\ df[1].vzdalenost = <<"1", "5", "0", "0">>)
              => stats["total_distance"] = Norm(15, 1)
        /\ (Len(df) = 1 /\ df[1].vzdalenost \in {NaNCell, <<"-", "-">>})
              => stats["total_distance"] = Zero

C6_Witness ==
    /\ Has("total_distance")
    /\ Len(df) = 2
    /\ df[1].typ = Plavani /\ df[1].vzdalenost = <<"1", "5", "0", "0">>
    /\ df[2].typ = Run /\ df[2].vzdalenost = <<"1", "0">>
    /\ stats["total_distance"] = Norm(115, 1)

\* the rows of the file dated in year y, as read
RECURSIVE RowsOfYear(_, _)
RowsOfYear(rows, y) ==
    IF rows = <<>> THEN <<>>
    ELSE (IF YearOf(Head(rows).datum) = y THEN <<Head(rows)>> ELSE <<>>)
             \o RowsOfYear(Tail(rows), y)

\* the rows the record is to be computed from
RowsWanted ==
    IF year_filter = <<>> THEN read_csv(csv)
    ELSE RowsOfYear(read_csv(csv), IntVal(year_filter))

TypesOf(rows) == {rows[i].typ : i \in 1..Len(rows)}

\* C7: with a year filter Y every statistic of the returned record is
\* computed from the rows dated in year Y only and the year field is the
\* integer Y; with no filter all rows are used and the year field is the
\* current year.
C7_YearFilter ==
    RecordReturned =>
        LET rows == RowsWanted
        IN  /\ stats["year"] = IF year_filter = <<>> THEN today ELSE IntVal(year_filter)
            /\ stats["total_activities"] = Len(rows)
            /\ DOMAIN stats["activity_breakdown"] = TypesOf(rows)
            /\ \A t \in TypesOf(rows) :
                  stats["activity_breakdown"][t]
                      = Cardinality({i \in 1..Len(rows) : rows[i].typ = t})
            /\ stats["most_frequent_activity"] \in TypesOf(rows)
            /\ stats["total_time_seconds"]
                  = Sum([i \in 1..Len(rows) |-> parse_time_to_seconds(rows[i].cas)])
            /\ stats["total_time"] = format_time(stats["total_time_seconds"])
            /\ stats["total_distance"] = ExpectedDistance(rows)
            /\ stats["total_elevation"]
                  = Sum([i \in 1..Len(rows) |-> parse_number(rows[i].vystup)])
            /\ stats["total_calories"]
                  = Sum([i \in 1..Len(rows) |-> parse_number(rows[i].kalorie)])
            /\ stats["total_steps"]
                  = Sum([i \in 1..Len(rows) |-> parse_number(rows[i].kroky)])

C7_Witness ==
    /\ RecordReturned
    /\ year_filter = <<"2", "0", "2", "3">>
    /\ stats["year"] = 2023
    /\ \E i \in 1..Len(csv) : YearOf(csv[i].datum) = 2024
    /\ stats["total_activities"] \in 1..(Len(csv) - 1)

\* C8: with an empty dataset (no rows in the source, or none left by the
\* year filter) the run fails during the aggregation and no PNG is written;
\* in every run the PNG is written only once load_and_analyze_data has
\* returned a complete record, and is drawn from it.
C8_NoOutputWithoutRecord ==
    /\ png # <<>> =>
          /\ pc = "done"
          /\ DOMAIN stats = Keys
          /\ png = <<[path |-> <<"garmin-", stats["year"], ".png">>, drawn |-> stats]>>
    /\ (df = <<>> /\ pc \notin {"main", "filter"}) =>
          /\ pc \in {"count", "frequent", "failed"}
          /\ pc = "failed" => ret \in {"IndexError", "ValueError"}
          /\ png = <<>>
    /\ pc = "failed" => png = <<>>

C8_Witness ==
    /\ pc = "failed" /\ ret = "IndexError"
    /\ csv # <<>> /\ year_filter # <<>>
    /\ df = <<>> /\ png = <<>>

RECURSIVE SumOfCounts(_)
SumOfCounts(counts) ==
    IF DOMAIN counts = {} THEN 0
    ELSE LET t == CHOOSE t \in DOMAIN counts : TRUE
         IN  counts[t] + SumOfCounts([u \in DOMAIN counts \ {t} |-> counts[u]])

\* the first retained row of the type
FirstSeen(t) == Least({i \in 1..Len(df) : df[i].typ = t})

MostFrequentIsLargest ==
    LET counts == stats["activity_breakdown"]
        chosen == stats["most_frequent_activity"]
    IN  /\ chosen \in DOMAIN counts
        /\ \A u \in DOMAIN counts : counts[u] <= counts[chosen]
        /\ stats["most_frequent_count"] = counts[chosen]
        /\ SumOfCounts(counts) = stats["total_activities"]

TiedWithChosen ==
    {u \in DOMAIN stats["activity_breakdown"] :
        stats["activity_breakdown"][u]
            = stats["activity_breakdown"][stats["most_frequent_activity"]]}

\* C10 as stated: most_frequent_activity has the largest count of the
\* breakdown and most_frequent_count is that count; of several types with the
\* largest count the one met first in the input rows is chosen; the counts
\* sum to total_activities.
C10_AsStated ==
    RecordReturned =>
        /\ MostFrequentIsLargest
        /\ \A u \in TiedWithChosen :
              FirstSeen(stats["most_frequent_activity"]) <= FirstSeen(u)

\* C10 amended: most_frequent_activity is a type with the largest count of
\* the breakdown, most_frequent_count is that count and the counts sum to
\* total_activities; which of several types with the largest count is chosen
\* is not fixed.
C10_LargestCountAnyTie ==
    RecordReturned => MostFrequentIsLargest

C10_Witness ==
    /\ RecordReturned
    /\ Cardinality(TiedWithChosen) > 1
    /\ FirstSeen(stats["most_frequent_activity"]) > 1
    /\ stats["most_frequent_count"] = 1
    /\ stats["total_activities"] = 3
    /\ MostFrequentIsLargest

====
